---- MODULE Spec2Model ----
(***************************************************************************)
(* NodeValue and NodeStructValue of caret_analyze/value_objects/node.py.   *)
(*                                                                         *)
(* A NodeStructValue is built once and then only read.  The state is the   *)
(* constructed object (node), the last call made on it (op, arg, result)   *)
(* and one earlier call kept for comparison (memo).  A pair of NodeValue   *)
(* objects (lhs, rhs) with the outcome of comparing and hashing them is    *)
(* the state of the second specification, SpecId.                          *)
(***************************************************************************)
EXTENDS Integers, Sequences, FiniteSets

VARIABLES node, op, arg, result, memo, lhs, rhs, eq_result, hash_result

vars == <<node, op, arg, result, memo, lhs, rhs, eq_result, hash_result>>

(***************************************************************************)
(* Bounds of the constructed objects.                                      *)
(***************************************************************************)
MaxEndpoints == 2

MaxGroups == 2

MaxCallbacks == 2

TopicNames == {"/x", "/out"}

QueryNames == {"/x", "/out", "/missing"}

CallbackNameSeq == <<"c1", "c2", "c3", "c4">>

GroupNames == <<"A", "B", "C", "D">>

NodeNames == {"nodeA", "nodeB", "nodeC"}

NodeIds == {"id1", "id2"}

Range(s) == {s[i] : i \in 1..Len(s)}

SeqsUpTo(S, n) == UNION {[1..k -> S] : k \in 0..n}

(***************************************************************************)
(* Python values: Optional[...], and the outcome of a call (a returned     *)
(* value or a raised exception with its message, kept as the pieces the    *)
(* code concatenates).                                                     *)
(***************************************************************************)
None == [tag |-> "None", val |-> <<>>]

Some(v) == [tag |-> "Some", val |-> v]

Return(v) == [kind |-> "return", val |-> v]

Raise(exc, msg) == [kind |-> "raise", exc |-> exc, msg |-> msg]

NoArg == "-"

NoCall == [op |-> "init", arg |-> NoArg, result |-> Return(None)]

(***************************************************************************)
(* Util.find_one and Util.flatten (caret_analyze/common).  A condition is   *)
(* given as the set of the items it accepts.                               *)
(***************************************************************************)
find_one(condition, items) ==
    LET hits == {i \in 1..Len(items) : items[i] \in condition}
    IN  IF hits = {}
        THEN Raise("ItemNotFoundError", <<>>)
        ELSE Return(items[CHOOSE i \in hits : \A j \in hits : i <= j])

RECURSIVE flatten(_)
flatten(x) == IF x = <<>> THEN <<>> ELSE Head(x) \o flatten(Tail(x))

(***************************************************************************)
(* NodeStructValue: the constructor and the accessors.                     *)
(***************************************************************************)
NodeStructValue(node_name_, publisher_values, subscriptions_info, node_path_values, callback_group_values, variable_passing_values, message_contexts_) ==
    [node_name |-> node_name_,
     publishers |-> publisher_values,
     subscriptions |-> subscriptions_info,
     callback_groups |-> callback_group_values,
     node_paths |-> node_path_values,
     variable_passings |-> variable_passing_values,
     message_contexts |-> message_contexts_]

node_name(self) == self.node_name

publisher(self) == self.publishers

RECURSIVE Dedup(_)
Dedup(s) ==
    IF s = <<>>
    THEN <<>>
    ELSE LET rest == Dedup(SubSeq(s, 1, Len(s) - 1))
             last == s[Len(s)]
         IN  IF last \in Range(rest) THEN rest ELSE Append(rest, last)

\* Faulty variant of publish_topic_names: the names pass through a set-like
\* collection, so a repeated topic name is kept once.
publish_topic_names_dedup(self) ==
    Dedup([i \in 1..Len(self.publishers) |-> self.publishers[i].topic_name])

publish_topic_names(self) ==
    [i \in 1..Len(self.publishers) |-> self.publishers[i].topic_name]

subscribe_topic_names(self) ==
    [i \in 1..Len(self.subscriptions) |-> self.subscriptions[i].topic_name]

subscription_values(self) == self.subscriptions

RECURSIVE Reverse(_)
Reverse(s) == IF s = <<>> THEN <<>> ELSE Append(Reverse(Tail(s)), Head(s))

\* Faulty variant of callbacks: the groups are flattened last group first.
callbacks_reversed(self) ==
    IF self.callback_groups = None
    THEN None
    ELSE Some(flatten(Reverse([g \in 1..Len(self.callback_groups.val) |->
                                  self.callback_groups.val[g].callbacks])))

callbacks(self) ==
    IF self.callback_groups = None
    THEN None
    ELSE Some(flatten([g \in 1..Len(self.callback_groups.val) |->
                          self.callback_groups.val[g].callbacks]))

\* Faulty variant of callback_names: the guard tests truthiness, so an empty
\* tuple of callbacks is answered with None.
callback_names_falsy(self) ==
    IF callbacks(self) = None \/ callbacks(self).val = <<>>
    THEN None
    ELSE Some([i \in 1..Len(callbacks(self).val) |->
                  callbacks(self).val[i].callback_name])

callback_names(self) ==
    IF callbacks(self) = None
    THEN None
    ELSE Some([i \in 1..Len(callbacks(self).val) |->
                  callbacks(self).val[i].callback_name])

callback_groups(self) == self.callback_groups

\* Faulty variant of callback_group_names: it projects the callbacks, not the groups.
callback_group_names_of_callbacks(self) ==
    IF callback_groups(self) = None
    THEN None
    ELSE Some([i \in 1..Len(callbacks(self).val) |->
                  callbacks(self).val[i].callback_name])

callback_group_names(self) ==
    IF callback_groups(self) = None
    THEN None
    ELSE Some([i \in 1..Len(callback_groups(self).val) |->
                  callback_groups(self).val[i].callback_group_name])

paths(self) == self.node_paths

variable_passings(self) == self.variable_passings

message_contexts(self) == self.message_contexts

\* Faulty variant of get_subscription: the publishers are searched.
get_subscription_in_publishers(self, subscribe_topic_name) ==
    LET match == {x \in Range(self.publishers) : x.topic_name = subscribe_topic_name}
        found == find_one(match, self.publishers)
    IN  IF found.kind = "raise" /\ found.exc = "ItemNotFoundError"
        THEN Raise("ItemNotFoundError",
                   <<"Failed to find subscription info. ", "topic_name: ",
                     subscribe_topic_name>>)
        ELSE found

get_subscription(self, subscribe_topic_name) ==
    LET match == {x \in Range(self.subscriptions) : x.topic_name = subscribe_topic_name}
        found == find_one(match, self.subscriptions)
    IN  IF found.kind = "raise" /\ found.exc = "ItemNotFoundError"
        THEN Raise("ItemNotFoundError",
                   <<"Failed to find subscription info. ", "topic_name: ",
                     subscribe_topic_name>>)
        ELSE found

\* Faulty variant of get_publisher: the message does not carry the topic name.
get_publisher_no_name(self, publish_topic_name) ==
    LET match == {x \in Range(self.publishers) : x.topic_name = publish_topic_name}
        found == find_one(match, self.publishers)
    IN  IF found.kind = "raise" /\ found.exc = "ItemNotFoundError"
        THEN Raise("ItemNotFoundError",
                   <<"Failed to find publisher info. ", "topic_name: ">>)
        ELSE found

\* Faulty variant of get_publisher: the last of several matches is returned.
get_publisher_last(self, publish_topic_name) ==
    LET match == {x \in Range(self.publishers) : x.topic_name = publish_topic_name}
        found == find_one(match, Reverse(self.publishers))
    IN  IF found.kind = "raise" /\ found.exc = "ItemNotFoundError"
        THEN Raise("ItemNotFoundError",
                   <<"Failed to find publisher info. ", "topic_name: ",
                     publish_topic_name>>)
        ELSE found

\* Faulty variant of get_publisher: several matches are reported as none.
get_publisher_strict(self, publish_topic_name) ==
    LET match == {x \in Range(self.publishers) : x.topic_name = publish_topic_name}
        found == find_one(match, self.publishers)
    IN  IF found.kind = "raise" \/ Cardinality(match) > 1
        THEN Raise("ItemNotFoundError",
                   <<"Failed to find publisher info. ", "topic_name: ",
                     publish_topic_name>>)
        ELSE found

get_publisher(self, publish_topic_name) ==
    LET match == {x \in Range(self.publishers) : x.topic_name = publish_topic_name}
        found == find_one(match, self.publishers)
    IN  IF found.kind = "raise" /\ found.exc = "ItemNotFoundError"
        THEN Raise("ItemNotFoundError",
                   <<"Failed to find publisher info. ", "topic_name: ",
                     publish_topic_name>>)
        ELSE found

(***************************************************************************)
(* One call on the constructed object.  No accessor and no lookup assigns  *)
(* a field of self; the call and its outcome are recorded, and the call    *)
(* made before it may be kept in memo.                                     *)
(***************************************************************************)
Invoke(o, a, r) ==
    /\ op' = o
    /\ arg' = a
    /\ result' = r
    /\ \/ memo' = memo
       \/ memo' = [op |-> op, arg |-> arg, result |-> result]
    /\ UNCHANGED <<node, lhs, rhs, eq_result, hash_result>>

CallNodeName == Invoke("node_name", NoArg, Return(node_name(node)))

CallPublisher == Invoke("publisher", NoArg, Return(publisher(node)))

CallPublishTopicNames ==
    Invoke("publish_topic_names", NoArg, Return(publish_topic_names(node)))

CallSubscribeTopicNames ==
    Invoke("subscribe_topic_names", NoArg, Return(subscribe_topic_names(node)))

CallSubscriptionValues ==
    Invoke("subscription_values", NoArg, Return(subscription_values(node)))

CallCallbacks == Invoke("callbacks", NoArg, Return(callbacks(node)))

CallCallbackNames == Invoke("callback_names", NoArg, Return(callback_names(node)))

CallCallbackGroups == Invoke("callback_groups", NoArg, Return(callback_groups(node)))

CallCallbackGroupNames ==
    Invoke("callback_group_names", NoArg, Return(callback_group_names(node)))

CallPaths == Invoke("paths", NoArg, Return(paths(node)))

CallVariablePassings ==
    Invoke("variable_passings", NoArg, Return(variable_passings(node)))

CallMessageContexts ==
    Invoke("message_contexts", NoArg, Return(message_contexts(node)))

CallGetSubscription(t) == Invoke("get_subscription", t, get_subscription(node, t))

\* Faulty variant of the get_publisher call: the entry found is taken out of
\* the publishers.
CallGetPublisherTake(t) ==
    /\ op' = "get_publisher"
    /\ arg' = t
    /\ result' = get_publisher(node, t)
    /\ \/ memo' = memo
       \/ memo' = [op |-> op, arg |-> arg, result |-> result]
    /\ node' = [node EXCEPT !.publishers =
                   SelectSeq(node.publishers, LAMBDA x : Return(x) # get_publisher(node, t))]
    /\ UNCHANGED <<lhs, rhs, eq_result, hash_result>>

CallGetPublisher(t) == Invoke("get_publisher", t, get_publisher(node, t))

(***************************************************************************)
(* NodeValue, and the equality and hash it inherits from ValueObject       *)
(* (caret_analyze/value_objects/value_object.py): both go through the      *)
(* public attributes of the object.                                        *)
(***************************************************************************)
NodeValue(node_name_, node_id) ==
    [NodeValue__node_name |-> node_name_, NodeValue__node_id |-> node_id]

NodeValue_node_name(self) == self.NodeValue__node_name

\* Faulty variant of NodeValue.node_id: it returns the name.
NodeValue_node_id_name(self) == Some(self.NodeValue__node_name)

NodeValue_node_id(self) == self.NodeValue__node_id

PublicAttrs == <<"node_id", "node_name">>

StrHash(s) ==
    LET names == <<"nodeA", "id1", "nodeB", "id2", "nodeC">>
    IN  (CHOOSE i \in 1..Len(names) : names[i] = s) % 3

AttrHash(self, attr) ==
    IF attr = "node_name"
    THEN StrHash(NodeValue_node_name(self))
    ELSE IF NodeValue_node_id(self) = None
         THEN 7
         ELSE StrHash(NodeValue_node_id(self).val)

AttrEq(self, right, attr) ==
    IF attr = "node_name"
    THEN NodeValue_node_name(self) = NodeValue_node_name(right)
    ELSE NodeValue_node_id(self) = NodeValue_node_id(right)

ValueObject_eq(self, right) ==
    \A i \in 1..Len(PublicAttrs) : AttrEq(self, right, PublicAttrs[i])

RECURSIVE HashFold(_, _, _)
HashFold(self, hash_value, i) ==
    IF i > Len(PublicAttrs)
    THEN hash_value
    ELSE HashFold(self, hash_value + hash_value * 31 + AttrHash(self, PublicAttrs[i]), i + 1)

ValueObject_hash(self) == HashFold(self, 17 + 17 * 31 + 5, 1)

CallEq ==
    /\ eq_result' = IF ValueObject_eq(lhs, rhs) THEN "True" ELSE "False"
    /\ UNCHANGED <<node, op, arg, result, memo, lhs, rhs, hash_result>>

CallHash ==
    /\ hash_result' = <<ValueObject_hash(lhs), ValueObject_hash(rhs)>>
    /\ UNCHANGED <<node, op, arg, result, memo, lhs, rhs, eq_result>>

(***************************************************************************)
(* The objects the extraction layer hands to the constructors.  Entries    *)
(* of one tuple are distinct objects: obj is the place of each.  Topic     *)
(* names may repeat within a tuple; callback names repeat across groups.   *)
(* A node is drawn either with its publishers and subscriptions varying    *)
(* or with its callback groups varying.                                    *)
(***************************************************************************)
MkEndpoints(topics) ==
    [i \in 1..Len(topics) |-> [topic_name |-> topics[i], obj |-> i]]

MkCallbackGroups(sizes) ==
    [g \in 1..Len(sizes) |->
        [callback_group_name |-> GroupNames[g],
         callbacks |-> [j \in 1..sizes[g] |->
                           [callback_name |-> CallbackNameSeq[j], obj |-> <<g, j>>]]]]

ExampleGroups ==
    <<[callback_group_name |-> "A",
       callbacks |-> <<[callback_name |-> "c1", obj |-> <<1, 1>>],
                       [callback_name |-> "c2", obj |-> <<1, 2>>]>>],
      [callback_group_name |-> "B",
       callbacks |-> <<[callback_name |-> "c3", obj |-> <<2, 1>>]>>]>>

EndpointTuples == {MkEndpoints(ts) : ts \in SeqsUpTo(TopicNames, MaxEndpoints)}

GroupTuples ==
    {MkCallbackGroups(sizes) : sizes \in SeqsUpTo(0..MaxCallbacks, MaxGroups)}

OtherFields ==
    <<[cbg |-> None, paths |-> <<>>, vps |-> None, mcs |-> <<>>],
      [cbg |-> Some(<<>>), paths |-> <<"path1">>, vps |-> Some(<<>>), mcs |-> <<"mc1">>],
      [cbg |-> Some(ExampleGroups), paths |-> <<"path1", "path2">>, vps |-> Some(<<"vp1">>), mcs |-> <<>>]>>

DefaultNode ==
    NodeStructValue("nodeA", MkEndpoints(<<"/out">>), MkEndpoints(<<"/in">>), <<>>, None, None, <<>>)

DefaultId == NodeValue("nodeA", None)

NodeValues ==
    {NodeValue(n, i) : n \in NodeNames, i \in {None} \cup {Some(x) : x \in NodeIds}}

InitEndpoints ==
    \E ps \in EndpointTuples, ss \in EndpointTuples, k \in 1..Len(OtherFields) :
        LET o == OtherFields[k]
        IN  node = NodeStructValue("nodeA", ps, ss, o.paths, o.cbg, o.vps, o.mcs)

InitGroups ==
    \E gs \in GroupTuples, k \in 1..Len(OtherFields) :
        LET o == OtherFields[k]
        IN  node = NodeStructValue("nodeA", MkEndpoints(<<"/out">>), MkEndpoints(<<"/in">>), o.paths, Some(gs), o.vps, o.mcs)

Init ==
    /\ InitEndpoints \/ InitGroups
    /\ op = "init"
    /\ arg = NoArg
    /\ result = Return(None)
    /\ memo = NoCall
    /\ lhs = DefaultId
    /\ rhs = DefaultId
    /\ eq_result = "unset"
    /\ hash_result = <<>>

Next ==
    \/ CallNodeName
    \/ CallPublisher
    \/ CallPublishTopicNames
    \/ CallSubscribeTopicNames
    \/ CallSubscriptionValues
    \/ CallCallbacks
    \/ CallCallbackNames
    \/ CallCallbackGroups
    \/ CallCallbackGroupNames
    \/ CallPaths
    \/ CallVariablePassings
    \/ CallMessageContexts
    \/ \E t \in QueryNames : CallGetSubscription(t)
    \/ \E t \in QueryNames : CallGetPublisher(t)

Spec == Init /\ [][Next]_vars

InitId ==
    /\ node = DefaultNode
    /\ op = "init"
    /\ arg = NoArg
    /\ result = Return(None)
    /\ memo = NoCall
    /\ lhs \in NodeValues
    /\ rhs \in NodeValues
    /\ eq_result = "unset"
    /\ hash_result = <<>>

NextId == CallEq \/ CallHash

SpecId == InitId /\ [][NextId]_vars

(***************************************************************************)
(* Properties.                                                             *)
(***************************************************************************)
Matches(items, t) == {i \in 1..Len(items) : items[i].topic_name = t}

First(S) == CHOOSE i \in S : \A j \in S : i <= j

IsNotFound(r, t, collection) ==
    /\ r.kind = "raise"
    /\ r.exc = "ItemNotFoundError"
    /\ \E i \in 1..Len(r.msg) : r.msg[i] = t
    /\ \E i \in 1..Len(r.msg) : r.msg[i] = collection

RECURSIVE Offset(_, _)
Offset(groups, g) ==
    IF g <= 1 THEN 0 ELSE Offset(groups, g - 1) + Len(groups[g - 1].callbacks)

NoCallbacks(groups) == \A g \in 1..Len(groups) : groups[g].callbacks = <<>>

\* C1: get_publisher(t) returns the one publisher whose topic_name is t when
\* exactly one exists, and when none exists raises ItemNotFoundError with a
\* message that contains t and says the publisher info was searched.
C1_GetPublisher ==
    op = "get_publisher" =>
        LET hits == Matches(node.publishers, arg)
        IN  /\ Cardinality(hits) = 1 => result = Return(node.publishers[First(hits)])
            /\ hits = {} => IsNotFound(result, arg, "Failed to find publisher info. ")

C1_Witness ==
    /\ memo.op = "get_publisher"
    /\ Cardinality(Matches(node.publishers, memo.arg)) = 1
    /\ memo.result.kind = "return"
    /\ op = "get_publisher"
    /\ node.publishers # <<>>
    /\ Matches(node.publishers, arg) = {}
    /\ result.kind = "raise"

\* C2: get_subscription(t) looks at the subscriptions only: it returns the
\* one subscription whose topic_name is t when exactly one exists, and when
\* none exists raises ItemNotFoundError with a message that contains t and
\* names the subscription info, whatever the publishers hold.
C2_GetSubscription ==
    op = "get_subscription" =>
        LET hits == Matches(node.subscriptions, arg)
        IN  /\ Cardinality(hits) = 1 => result = Return(node.subscriptions[First(hits)])
            /\ hits = {} => IsNotFound(result, arg, "Failed to find subscription info. ")

C2_Witness ==
    /\ op = "get_subscription"
    /\ Matches(node.subscriptions, arg) = {}
    /\ Matches(node.publishers, arg) # {}
    /\ result.kind = "raise"
    /\ memo.op = "get_subscription"
    /\ Cardinality(Matches(node.subscriptions, memo.arg)) = 1
    /\ memo.result.kind = "return"

\* C3: with two or more publishers on topic t, get_publisher(t) does not
\* fail, returns the first of them in declared order, and returned the same
\* entry on an earlier call; likewise get_subscription over subscriptions.
C3_FirstMatch ==
    /\ op = "get_publisher" /\ Cardinality(Matches(node.publishers, arg)) >= 2 =>
          /\ result = Return(node.publishers[First(Matches(node.publishers, arg))])
          /\ memo.op = op /\ memo.arg = arg => memo.result = result
    /\ op = "get_subscription" /\ Cardinality(Matches(node.subscriptions, arg)) >= 2 =>
          /\ result = Return(node.subscriptions[First(Matches(node.subscriptions, arg))])
          /\ memo.op = op /\ memo.arg = arg => memo.result = result

C3_Witness ==
    /\ op = "get_publisher"
    /\ Cardinality(Matches(node.publishers, arg)) >= 2
    /\ memo.op = "get_publisher"
    /\ memo.arg = arg
    /\ result.kind = "return"
    /\ result.val.obj = 1

\* C4: callbacks, callback_names and callback_group_names each return None
\* exactly when callback_groups is None; with an empty tuple of groups all
\* three return an empty tuple, and with groups that hold no callbacks
\* callbacks and callback_names return an empty tuple.
C4_OptionDiscipline ==
    op \in {"callbacks", "callback_names", "callback_group_names"} =>
        /\ result.kind = "return"
        /\ result.val = None <=> node.callback_groups = None
        /\ node.callback_groups = Some(<<>>) => result.val = Some(<<>>)
        /\ (/\ op # "callback_group_names"
            /\ node.callback_groups # None
            /\ NoCallbacks(node.callback_groups.val)) => result.val = Some(<<>>)

C4_Witness ==
    /\ op = "callback_names"
    /\ node.callback_groups # None
    /\ Len(node.callback_groups.val) >= 2
    /\ NoCallbacks(node.callback_groups.val)
    /\ result.val = Some(<<>>)
    /\ memo.op = "callback_group_names"
    /\ memo.result.val.tag = "Some"

\* C5: when callback_groups is not None, callbacks is the concatenation of
\* the groups' callbacks in group order and then in each group's order: the
\* j-th callback of the g-th group is at the place after all callbacks of
\* the groups before it, and the length is the sum of the groups' counts.
C5_Flattening ==
    op = "callbacks" /\ node.callback_groups # None =>
        LET groups == node.callback_groups.val
        IN  /\ result.kind = "return"
            /\ result.val.tag = "Some"
            /\ Len(result.val.val) = Offset(groups, Len(groups) + 1)
            /\ \A g \in 1..Len(groups) : \A j \in 1..Len(groups[g].callbacks) :
                  result.val.val[Offset(groups, g) + j] = groups[g].callbacks[j]

C5_Witness ==
    /\ op = "callbacks"
    /\ node.callback_groups = Some(ExampleGroups)
    /\ Len(result.val.val) = 3
    /\ result.val.val[1].callback_name = "c1"
    /\ result.val.val[2].callback_name = "c2"
    /\ result.val.val[3].callback_name = "c3"

\* C6: publish_topic_names has the length of publishers and its i-th element
\* is the topic_name of the i-th publisher, repeated names included;
\* subscribe_topic_names is the same over subscriptions.
C6_TopicNames ==
    /\ op = "publish_topic_names" =>
          /\ result.kind = "return"
          /\ Len(result.val) = Len(node.publishers)
          /\ \A i \in 1..Len(node.publishers) :
                result.val[i] = node.publishers[i].topic_name
    /\ op = "subscribe_topic_names" =>
          /\ result.kind = "return"
          /\ Len(result.val) = Len(node.subscriptions)
          /\ \A i \in 1..Len(node.subscriptions) :
                result.val[i] = node.subscriptions[i].topic_name

C6_Witness ==
    /\ op = "publish_topic_names"
    /\ Len(node.publishers) = 2
    /\ node.publishers[1].topic_name = node.publishers[2].topic_name
    /\ result.val = <<"/out", "/out">>
    /\ memo.op = "subscribe_topic_names"
    /\ Len(memo.result.val) = 2

\* C7: when callback_groups is not None, callback_names has the length of
\* callbacks and names its i-th callback, and callback_group_names has the
\* length of callback_groups and names its i-th group.
C7_NameProjections ==
    /\ op = "callback_names" /\ node.callback_groups # None =>
          /\ result.kind = "return"
          /\ result.val.tag = "Some"
          /\ Len(result.val.val) = Len(callbacks(node).val)
          /\ \A i \in 1..Len(callbacks(node).val) :
                result.val.val[i] = callbacks(node).val[i].callback_name
    /\ op = "callback_group_names" /\ node.callback_groups # None =>
          /\ result.kind = "return"
          /\ result.val.tag = "Some"
          /\ Len(result.val.val) = Len(node.callback_groups.val)
          /\ \A i \in 1..Len(node.callback_groups.val) :
                result.val.val[i] = node.callback_groups.val[i].callback_group_name

C7_Witness ==
    /\ op = "callback_group_names"
    /\ node.callback_groups = Some(ExampleGroups)
    /\ result.val = Some(<<"A", "B">>)
    /\ memo.op = "callback_names"
    /\ memo.result.val = Some(<<"c1", "c2", "c3">>)

\* C8: no call, successful or failing, changes a stored field of the node,
\* and a call repeated with the same argument gives the result an earlier
\* call with that argument gave.
C8_ReadOnly ==
    /\ [][node' = node]_vars
    /\ [](memo.op = op /\ memo.arg = arg => memo.result = result)

C8_Witness ==
    /\ memo.op = "get_publisher"
    /\ op = "get_publisher"
    /\ memo.arg = arg
    /\ result.kind = "return"
    /\ Len(node.publishers) = 2

\* C9: an exception is raised only by get_publisher and get_subscription,
\* it is ItemNotFoundError, and it is raised only when no entry of the
\* searched collection has the requested topic name; every other call
\* returns a value.
C9_OnlyNotFound ==
    /\ result.kind \in {"return", "raise"}
    /\ result.kind = "raise" =>
          /\ op \in {"get_publisher", "get_subscription"}
          /\ result.exc = "ItemNotFoundError"
          /\ op = "get_publisher" => Matches(node.publishers, arg) = {}
          /\ op = "get_subscription" => Matches(node.subscriptions, arg) = {}

C9_Witness ==
    /\ memo.op = "get_subscription"
    /\ memo.result.kind = "raise"
    /\ op = "callback_names"
    /\ node.callback_groups = None
    /\ node.variable_passings = None
    /\ node.node_paths = <<>>
    /\ result = Return(None)

\* C10: two NodeValue objects compare equal exactly when their node_name
\* fields are equal and their node_id fields are equal (None equal to None
\* only), and objects that compare equal have equal hashes.
C10_IdentityEquality ==
    /\ eq_result # "unset" =>
          (eq_result = "True" <=>
              /\ lhs.NodeValue__node_name = rhs.NodeValue__node_name
              /\ lhs.NodeValue__node_id = rhs.NodeValue__node_id)
    /\ eq_result = "True" /\ hash_result # <<>> => hash_result[1] = hash_result[2]

C10_Witness ==
    /\ eq_result = "False"
    /\ hash_result # <<>>
    /\ lhs.NodeValue__node_name = rhs.NodeValue__node_name
    /\ lhs.NodeValue__node_id = None
    /\ rhs.NodeValue__node_id # None

====
